---------------------------- MODULE Spec2Model ----------------------------
(***************************************************************************)
(* Weather ETL: extract_weather / transform_weather / load_weather         *)
(* (etl_module/assets/weather.py), the MySqlClient load strategies         *)
(* (etl_module/connectors/mysql.py), WeatherApiClient.get_city             *)
(* (etl_module/connectors/weather_api.py) and one invocation of main       *)
(* (etl_module/pipeline/etl_pipeline.py).                                  *)
(*                                                                         *)
(* Specifications:                                                         *)
(*   Spec           load_weather called with any method and any batch, one *)
(*                  database statement per step;                           *)
(*   SpecRun        main(config) invoked again and again;                  *)
(*   SpecTransform  transform_weather on one response;                     *)
(*   SpecSched      the scheduling loop of __main__ with its clock.        *)
(***************************************************************************)
EXTENDS Integers, Sequences, FiniteSets, Bags, TLC

VARIABLES
    tableState,    \* daily_weather in the database: "absent", "keyed" (created by create_all, with its primary key), "unkeyed" (created by pandas to_sql)
    table,         \* bag of the rows stored in daily_weather
    lpc,           \* position inside load_weather and the MySqlClient method it calls
    method,        \* load_weather's method argument
    batch,         \* load_weather's df argument: a sequence of rows
    result,        \* how the last load_weather call ended: "none", "ok" or the exception raised
    stmts,         \* database operations that reached the server since the observed operation began
    pre,           \* bag of the rows stored when the observed operation (load call, or run) began
    first,         \* "none", or how the preceding call ended when this call repeats its method and batch
    pc,            \* position inside main
    environ,       \* os.environ after load_dotenv: variable name -> "unset", "empty" or "set"
    cities,        \* config.get("cities")
    requests,      \* city names requested from the weather API in this run, in order
    weather_data,  \* extract_weather's list of responses
    clean_df,      \* transform_weather's result
    error_vars,    \* variable names joined into the configuration error message
    outcome,       \* how the last invocation of main ended: "none", "ok", "caught" or "raised"
    now,           \* the clock, in units of the loop's time.sleep(5)
    next_run,      \* schedule's Job.next_run
    last_run,      \* schedule's Job.last_run, -1 for None
    loop,          \* position of the scheduling loop: "run_pending", "in_job", "sleep" or "terminated"
    sinks,         \* number of log file sinks registered with loguru's logger
    starts,        \* the clock at each entry of main, in order
    active         \* number of invocations of main entered and not yet left

sinkVars == <<tableState, table, lpc, method, batch, result, stmts, pre, first>>
runVars == <<pc, environ, cities, requests, weather_data, clean_df, error_vars, outcome>>
loopVars == <<now, next_run, last_run, loop, sinks, starts, active>>
vars == <<tableState, table, lpc, method, batch, result, stmts, pre, first,
          pc, environ, cities, requests, weather_data, clean_df, error_vars, outcome,
          now, next_run, last_run, loop, sinks, starts, active>>

(***************************************************************************)
(* Bounds of the model.                                                    *)
(***************************************************************************)
MaxBatchLen == 2

\* invocations of main explored by SpecRun
MaxRuns == 3

\* periods of the schedule explored by SpecSched
MaxPeriods == 3

\* config.get("run_minutes") of the pipeline yaml
RunMinutes == 1

(***************************************************************************)
(* Data: API responses and table rows.                                     *)
(***************************************************************************)
\* pd.Timedelta(hours=9)
KST_OFFSET_HOURS == 9

\* OpenWeatherMap: name -> id of the station
CityId(name) ==
    CASE name = "Seoul" -> 1835848
      [] name = "Busan" -> 1838524
      [] name = "Tokyo" -> 1850147

Epochs == {1700000000, 1700031600}
Temps == {152, 98}

\* A 200 response of /weather for a city (temperature in tenths of a degree).
Responses(name) ==
    { [dt |-> e, id |-> CityId(name), name |-> name, temp |-> t,
       humidity |-> 60, wind_speed |-> 31] : e \in Epochs, t \in Temps }

Digit(n) ==
    CASE n = 0 -> "0" [] n = 1 -> "1" [] n = 2 -> "2" [] n = 3 -> "3"
      [] n = 4 -> "4" [] n = 5 -> "5" [] n = 6 -> "6" [] n = 7 -> "7"
      [] n = 8 -> "8" [] n = 9 -> "9"

\* zero-padded decimal of n on w digits, as strftime's %Y, %m, %d, %H, %M, %S
RECURSIVE Pad(_, _)
Pad(n, w) == IF w = 0 THEN "" ELSE Pad(n \div 10, w - 1) \o Digit(n % 10)

\* proleptic Gregorian date of a day number counted from 1970-01-01
CivilFromDays(z0) ==
    LET z == z0 + 719468
        era == z \div 146097
        doe == z - era * 146097
        yoe == (doe - doe \div 1460 + doe \div 36524 - doe \div 146096) \div 365
        doy == doe - (365 * yoe + yoe \div 4 - yoe \div 100)
        mp == (5 * doy + 2) \div 153
        d == doy - (153 * mp + 2) \div 5 + 1
        m == IF mp < 10 THEN mp + 3 ELSE mp - 9
        y == yoe + era * 400 + (IF m <= 2 THEN 1 ELSE 0)
    IN  [year |-> y, month |-> m, day |-> d]

\* variant: the timestamp is left in UTC
measured_at_utc(dt) == dt

\* df["measured_at"] = pd.to_datetime(df["dt"], unit="s") + pd.Timedelta(hours=9)
measured_at(dt) == dt + KST_OFFSET_HOURS * 3600

\* strftime("%Y%m%d") of a naive timestamp given in seconds
strftime_Ymd(ts) ==
    LET c == CivilFromDays(ts \div 86400)
    IN  Pad(c.year, 4) \o Pad(c.month, 2) \o Pad(c.day, 2)

\* strftime("%H%M%S") of a naive timestamp given in seconds
strftime_HMS(ts) ==
    LET s == ts % 86400
    IN  Pad(s \div 3600, 2) \o Pad((s % 3600) \div 60, 2) \o Pad(s % 60, 2)

\* one row of transform_weather's result
transform_row(o) ==
    [dt |-> strftime_Ymd(measured_at(o.dt)),
     time |-> strftime_HMS(measured_at(o.dt)),
     measured_at |-> measured_at(o.dt),
     id |-> o.id,
     city |-> o.name,
     temperature |-> o.temp,
     humidity |-> o.humidity,
     wind_speed |-> o.wind_speed]

transform_weather(df) == [i \in 1..Len(df) |-> transform_row(df[i])]


(***************************************************************************)
(* The sink table and the statements MySqlClient sends to it.              *)
(***************************************************************************)
\* variant: the key is the timestamp pair alone
primary_key_columns_date_time == <<"dt", "time">>

\* Table("daily_weather", ...): the columns declared primary_key=True
primary_key_columns == <<"dt", "time", "id">>

\* tuple(row[pk] for pk in key_columns)
key_of(row) == [i \in 1..Len(primary_key_columns) |-> row[primary_key_columns[i]]]

\* variant: only the first record's key is collected
key_values_first_record(df) == IF df = <<>> THEN <<>> ELSE <<key_of(df[1])>>

\* key_values = [tuple(row[pk] for pk in key_columns) for row in data]
key_values(df) == [i \in 1..Len(df) |-> key_of(df[i])]

Range(s) == { s[i] : i \in 1..Len(s) }

\* the rows of a DataFrame as a bag
RowsOf(df) == [r \in Range(df) |-> Cardinality({ i \in 1..Len(df) : df[i] = r })]

\* number of stored rows having the key k
KeyCount(tbl, k) ==
    LET Hits == { r \in BagToSet(tbl) : key_of(r) = k }
        RECURSIVE Sum(_)
        Sum(S) == IF S = {} THEN 0
                  ELSE LET r == CHOOSE x \in S : TRUE
                       IN  CopiesIn(r, tbl) + Sum(S \ {r})
    IN  Sum(Hits)

\* metadata.create_all(engine): CREATE TABLE with the declared key unless the table exists
create_table(tstate) == IF tstate = "absent" THEN "keyed" ELSE tstate

\* variant: the table is left as it is
drop_table_skipped(tstate, tbl) == [state |-> tstate, rows |-> tbl]

\* DROP TABLE IF EXISTS daily_weather
drop_table(tstate, tbl) == [state |-> "absent", rows |-> EmptyBag]

\* variant: the DELETE matches nothing
delete_rows_none(tbl, keys) == tbl

\* variant: the DELETE has no WHERE clause
delete_rows_all(tbl, keys) == EmptyBag

\* DELETE FROM daily_weather WHERE (dt, time, id) IN (key_values)
delete_rows(tbl, keys) ==
    LET Kept == { r \in BagToSet(tbl) : key_of(r) \notin Range(keys) }
    IN  [r \in Kept |-> tbl[r]]

\* the primary key rejects the INSERT of df into tbl
violates_primary_key(tbl, df) ==
    \E r \in Range(df) : KeyCount(tbl (+) RowsOf(df), key_of(r)) > 1

\* variant: the rows are inserted one statement each, outside a transaction, so that
\* the rows before the rejected one stay
to_sql_no_transaction(tstate, tbl, df) ==
    LET RECURSIVE Go(_, _)
        Go(i, acc) ==
            IF i > Len(df) THEN [error |-> "none", state |-> tstate, rows |-> acc]
            ELSE IF tstate = "keyed" /\ KeyCount(acc, key_of(df[i])) > 0
                 THEN [error |-> "IntegrityError", state |-> tstate, rows |-> acc]
                 ELSE Go(i + 1, acc (+) SetToBag({df[i]}))
    IN  IF tstate = "absent"
        THEN [error |-> "none", state |-> "unkeyed", rows |-> tbl (+) RowsOf(df)]
        ELSE Go(1, tbl)

\* df.to_sql(name, con, if_exists="append", index=False): one transaction;
\* pandas creates the table itself, without a key, when it is absent
to_sql(tstate, tbl, df) ==
    IF tstate = "keyed" /\ violates_primary_key(tbl, df)
    THEN [error |-> "IntegrityError", state |-> tstate, rows |-> tbl]
    ELSE [error |-> "none",
          state |-> IF tstate = "absent" THEN "unkeyed" ELSE tstate,
          rows |-> tbl (+) RowsOf(df)]

(***************************************************************************)
(* load_weather and the three MySqlClient methods, one statement a step.   *)
(* Every statement needs the server: it is reached (up) or the driver      *)
(* raises OperationalError.                                                *)
(***************************************************************************)
Methods == {"insert", "upsert", "overwrite", "merge"}

Ended == {"returned", "raised"}

Raise(exc) ==
    /\ lpc' = "raised"
    /\ result' = exc

\* variant: a method that is none of the three is taken as the default, upsert
dispatch_default_upsert(m) ==
    CASE m = "insert" -> "insert.create_table"
      [] m = "overwrite" -> "overwrite.create_table"
      [] OTHER -> "upsert.create_table"

\* load_weather's dispatch on method
dispatch(m) ==
    CASE m = "insert" -> "insert.create_table"
      [] m = "upsert" -> "upsert.create_table"
      [] m = "overwrite" -> "overwrite.create_table"
      [] OTHER -> "raised"

\* load_weather(df, my_sql_client, method) is entered
load_weather(m, df) ==
    /\ method' = m
    /\ batch' = df
    /\ lpc' = dispatch(m)
    /\ result' = IF dispatch(m) = "raised" THEN "Exception" ELSE "none"

\* self.create_table(metadata=metadata) at position here, going on at position next
CreateTableStep(here, next) ==
    /\ lpc = here
    /\ \E up \in BOOLEAN :
         IF up
         THEN /\ tableState' = create_table(tableState)
              /\ stmts' = Append(stmts, "create_all")
              /\ lpc' = next
              /\ UNCHANGED result
         ELSE /\ Raise("OperationalError")
              /\ UNCHANGED <<tableState, stmts>>
    /\ UNCHANGED <<table, method, batch, pre, first>>

\* df.to_sql(..., if_exists="append") at position here, the method's last statement
ToSqlStep(here) ==
    /\ lpc = here
    /\ \E up \in BOOLEAN :
         IF up
         THEN LET r == to_sql(tableState, table, batch)
              IN  /\ tableState' = r.state
                  /\ table' = r.rows
                  /\ stmts' = Append(stmts, "to_sql")
                  /\ lpc' = IF r.error = "none" THEN "returned" ELSE "raised"
                  /\ result' = IF r.error = "none" THEN "ok" ELSE r.error
         ELSE /\ Raise("OperationalError")
              /\ UNCHANGED <<tableState, table, stmts>>
    /\ UNCHANGED <<method, batch, pre, first>>

\* MySqlClient.insert, line 71
insert_create_table ==
    /\ CreateTableStep("insert.create_table", "insert.to_sql")
    /\ UNCHANGED <<runVars, loopVars>>

\* MySqlClient.insert, line 72
insert_to_sql ==
    /\ ToSqlStep("insert.to_sql")
    /\ UNCHANGED <<runVars, loopVars>>

\* MySqlClient.upsert, line 83
upsert_create_table ==
    /\ CreateTableStep("upsert.create_table", "upsert.delete")
    /\ UNCHANGED <<runVars, loopVars>>

\* MySqlClient.upsert, lines 86-106: the DELETE of the batch's keys, committed on its own
upsert_delete ==
    /\ lpc = "upsert.delete"
    /\ \E up \in BOOLEAN :
         IF up
         THEN /\ IF key_values(batch) # <<>>
                 THEN IF tableState = "absent"
                      THEN /\ Raise("ProgrammingError")
                           /\ UNCHANGED <<table, stmts>>
                      ELSE /\ table' = delete_rows(table, key_values(batch))
                           /\ stmts' = Append(stmts, "DELETE")
                           /\ lpc' = "upsert.to_sql"
                           /\ UNCHANGED result
                 ELSE /\ lpc' = "upsert.to_sql"
                      /\ UNCHANGED <<table, stmts, result>>
         ELSE /\ Raise("OperationalError")
              /\ UNCHANGED <<table, stmts>>
    /\ UNCHANGED <<tableState, method, batch, pre, first>>
    /\ UNCHANGED <<runVars, loopVars>>

\* MySqlClient.upsert, line 109
upsert_to_sql ==
    /\ ToSqlStep("upsert.to_sql")
    /\ UNCHANGED <<runVars, loopVars>>

\* MySqlClient.overwrite, line 121
overwrite_create_table ==
    /\ CreateTableStep("overwrite.create_table", "overwrite.drop_table")
    /\ UNCHANGED <<runVars, loopVars>>

\* MySqlClient.overwrite, line 124: DROP TABLE IF EXISTS (DDL, committed by the server at once)
overwrite_drop_table ==
    /\ lpc = "overwrite.drop_table"
    /\ \E up \in BOOLEAN :
         IF up
         THEN /\ tableState' = drop_table(tableState, table).state
              /\ table' = drop_table(tableState, table).rows
              /\ stmts' = Append(stmts, "DROP")
              /\ lpc' = "insert.create_table"
              /\ UNCHANGED result
         ELSE /\ Raise("OperationalError")
              /\ UNCHANGED <<tableState, table, stmts>>
    /\ UNCHANGED <<method, batch, pre, first>>
    /\ UNCHANGED <<runVars, loopVars>>

(***************************************************************************)
(* Spec: any caller of load_weather.                                       *)
(***************************************************************************)
SinkRows == { transform_row(o) : o \in Responses("Seoul") \cup Responses("Busan") }

Batches == UNION { [1..n -> SinkRows] : n \in 0..MaxBatchLen }

\* a caller enters load_weather with any method and any DataFrame
call_load_weather ==
    /\ lpc = "idle"
    /\ \E m \in Methods, df \in Batches : load_weather(m, df)
    /\ first' = "none"
    /\ pre' = table
    /\ stmts' = <<>>
    /\ UNCHANGED <<tableState, table>>
    /\ UNCHANGED <<runVars, loopVars>>

\* the caller, its call over, calls load_weather again with the same method and DataFrame
call_load_weather_again ==
    /\ lpc \in Ended
    /\ first' = result
    /\ load_weather(method, batch)
    /\ pre' = table
    /\ stmts' = <<>>
    /\ UNCHANGED <<tableState, table>>
    /\ UNCHANGED <<runVars, loopVars>>

\* the caller, its call over, goes on: nothing of the call is left but the table
caller_goes_on ==
    /\ lpc \in Ended
    /\ lpc' = "idle"
    /\ method' = "none"
    /\ batch' = <<>>
    /\ result' = "none"
    /\ stmts' = <<>>
    /\ pre' = EmptyBag
    /\ first' = "none"
    /\ UNCHANGED <<tableState, table>>
    /\ UNCHANGED <<runVars, loopVars>>

InitSink ==
    /\ tableState = "absent"
    /\ table = EmptyBag
    /\ lpc = "idle"
    /\ method = "none"
    /\ batch = <<>>
    /\ result = "none"
    /\ stmts = <<>>
    /\ pre = EmptyBag
    /\ first = "none"

InitRunIdle ==
    /\ pc = "idle"
    /\ environ = [v \in {} |-> "unset"]
    /\ cities = <<>>
    /\ requests = <<>>
    /\ weather_data = <<>>
    /\ clean_df = <<>>
    /\ error_vars = {}
    /\ outcome = "none"

\* time.sleep(5)
SLEEP_SECONDS == 5

\* every(run_minutes).minutes, in units of the loop's sleep
Period == (RunMinutes * 60) \div SLEEP_SECONDS

\* the last clock value explored by SpecSched, in units of the loop's sleep
MaxTime == MaxPeriods * Period + 4

\* __main__, lines 104-115: the job is scheduled, next_run = now + period
InitLoop ==
    /\ now = 0
    /\ next_run = Period
    /\ last_run = -1
    /\ loop = "run_pending"
    /\ sinks = 0
    /\ starts = <<>>
    /\ active = 0

Init == InitSink /\ InitRunIdle /\ InitLoop

Next ==
    \/ call_load_weather
    \/ call_load_weather_again
    \/ caller_goes_on
    \/ insert_create_table
    \/ insert_to_sql
    \/ upsert_create_table
    \/ upsert_delete
    \/ upsert_to_sql
    \/ overwrite_create_table
    \/ overwrite_drop_table

Spec == Init /\ [][Next]_vars

(***************************************************************************)
(* SpecRun: main(config), invoked by the scheduling loop.                  *)
(***************************************************************************)
RequiredVars ==
    {"API_KEY", "DB_SERVER_HOST", "DB_USERNAME", "DB_PASSWORD", "DB_DATABASE", "DB_PORT"}

\* os.environ.get(name) is None, "" or a non-empty string
EnvValues == {"unset", "empty", "set"}

\* the configured city lists of the model (pipeline yaml, key cities)
CityLists == { <<"Busan", "Seoul">>, <<"Seoul", "Busan">>, <<"Seoul">>, <<"Tokyo">> }

\* what requests.get gives: a response with a status code, or an exception
\* (connected false) when the server is not reached
Replies ==
    { [connected |-> TRUE, status_code |-> c] : c \in {200, 401, 404} }
        \cup { [connected |-> FALSE, status_code |-> 0] }

\* variant: any one value is enough
config_ok_any(env) == \E v \in RequiredVars : env[v] = "set"

\* all([API_KEY, DB_SERVER_HOST, DB_USERNAME, DB_PASSWORD, DB_DATABASE, DB_PORT]):
\* every value is truthy, neither None nor ""
config_ok(env) == \A v \in RequiredVars : env[v] = "set"

\* missing_vars = [var for var, value in [...] if value is None]
missing_vars(env) == { v \in RequiredVars : env[v] = "unset" }

\* extract_weather: the list its loop runs over (line 19 rebinds the parameter)
extract_cities(cities_arg) == <<"Busan", "Seoul">>

\* get_city: response.status_code == 200
get_city_ok(reply) == reply.connected /\ reply.status_code = 200

\* an exception reaches "except Exception" of main: logged, main returns
Caught(stage) ==
    /\ pc' = "returned"
    /\ outcome' = stage

\* an exception leaves main
Escapes(stage) ==
    /\ pc' = "raised"
    /\ outcome' = stage

\* main(config) is entered: its locals are fresh
MainEntered ==
    /\ pc' = "logger.add"
    /\ outcome' = "none"
    /\ requests' = <<>>
    /\ weather_data' = <<>>
    /\ clean_df' = <<>>
    /\ error_vars' = {}
    /\ lpc' = "idle"
    /\ method' = "none"
    /\ batch' = <<>>
    /\ result' = "none"
    /\ stmts' = <<>>
    /\ pre' = table
    /\ UNCHANGED <<tableState, table, first, environ, cities>>

\* schedule.run_pending() runs the job: main(config) is called
main_start ==
    /\ pc \in {"idle", "returned"}
    /\ sinks < MaxRuns
    /\ MainEntered
    /\ UNCHANGED loopVars

\* main, lines 29-31: the log file of this invocation is opened and added to the
\* logger's sinks (none is ever removed), outside the try
main_logger_add ==
    /\ pc = "logger.add"
    /\ \E ok \in BOOLEAN :
         IF ok THEN pc' = "load_dotenv" /\ sinks' = sinks + 1 /\ UNCHANGED outcome
         ELSE Escapes("raised:logger.add") /\ UNCHANGED sinks
    /\ UNCHANGED <<sinkVars, environ, cities, requests, weather_data, clean_df, error_vars>>
    /\ UNCHANGED <<now, next_run, last_run, loop, starts, active>>

\* main, lines 33-34: load_dotenv(), outside the try
main_load_dotenv ==
    /\ pc = "load_dotenv"
    /\ \E ok \in BOOLEAN :
         IF ok THEN pc' = "config" /\ UNCHANGED outcome
         ELSE Escapes("raised:load_dotenv")
    /\ UNCHANGED <<sinkVars, environ, cities, requests, weather_data, clean_df, error_vars>>
    /\ UNCHANGED loopVars

\* main, lines 38-65: the configuration check
main_config_check ==
    /\ pc = "config"
    /\ IF config_ok(environ)
       THEN /\ pc' = "clients"
            /\ UNCHANGED <<outcome, error_vars>>
       ELSE /\ error_vars' = missing_vars(environ)
            /\ Caught("caught:config")
    /\ UNCHANGED <<sinkVars, environ, cities, requests, weather_data, clean_df>>
    /\ UNCHANGED loopVars

\* main, lines 67-77: WeatherApiClient(api_key) raises on None; MySqlClient builds
\* its engine (create_engine loads the driver, or raises)
main_clients ==
    /\ pc = "clients"
    /\ \E ok \in BOOLEAN :
         IF ok /\ environ["API_KEY"] # "unset"
         THEN pc' = "extract" /\ UNCHANGED outcome
         ELSE Caught("caught:clients")
    /\ UNCHANGED <<sinkVars, environ, cities, requests, weather_data, clean_df, error_vars>>
    /\ UNCHANGED loopVars

\* main, lines 81-83; extract_weather, lines 19-23: one turn of the loop, one get_city
main_extract_get_city ==
    /\ pc = "extract"
    /\ LET todo == extract_cities(cities)
           city_name == todo[Len(weather_data) + 1]
       IN  /\ requests' = Append(requests, city_name)
           /\ \E reply \in Replies :
                IF get_city_ok(reply)
                THEN /\ \E r \in Responses(city_name) : weather_data' = Append(weather_data, r)
                     /\ pc' = IF Len(weather_data) + 1 = Len(todo) THEN "transform" ELSE "extract"
                     /\ UNCHANGED outcome
                ELSE /\ Caught("caught:extract")
                     /\ UNCHANGED weather_data
    /\ UNCHANGED <<sinkVars, environ, cities, clean_df, error_vars>>
    /\ UNCHANGED loopVars

\* main, lines 88-92: clean_df = transform_weather(df)
main_transform ==
    /\ pc = "transform"
    /\ clean_df' = transform_weather(weather_data)
    /\ pc' = "load"
    /\ UNCHANGED <<sinkVars, environ, cities, requests, weather_data, error_vars, outcome>>
    /\ UNCHANGED loopVars

\* main, line 95: load_weather(df=clean_df, my_sql_client=my_sql_client), method "upsert"
main_load ==
    /\ pc = "load"
    /\ load_weather("upsert", clean_df)
    /\ pc' = "loading"
    /\ UNCHANGED <<tableState, table, stmts, pre, first>>
    /\ UNCHANGED <<environ, cities, requests, weather_data, clean_df, error_vars, outcome>>
    /\ UNCHANGED loopVars

\* main, lines 96-99: load_weather has returned, or raised into "except Exception"
main_load_over ==
    /\ pc = "loading"
    /\ lpc \in Ended
    /\ IF lpc = "returned" THEN Caught("ok") ELSE Caught("caught:load")
    /\ UNCHANGED <<sinkVars, environ, cities, requests, weather_data, clean_df, error_vars>>
    /\ UNCHANGED loopVars

InitRun ==
    /\ InitSink
    /\ InitLoop
    /\ pc = "idle"
    /\ environ \in [RequiredVars -> EnvValues]
    /\ cities \in CityLists
    /\ requests = <<>>
    /\ weather_data = <<>>
    /\ clean_df = <<>>
    /\ error_vars = {}
    /\ outcome = "none"

NextRun ==
    \/ main_start
    \/ main_logger_add
    \/ main_load_dotenv
    \/ main_config_check
    \/ main_clients
    \/ main_extract_get_city
    \/ main_transform
    \/ main_load
    \/ upsert_create_table
    \/ upsert_delete
    \/ upsert_to_sql
    \/ main_load_over

SpecRun == InitRun /\ [][NextRun]_vars

(***************************************************************************)
(* SpecTransform: transform_weather applied to one response, for epochs    *)
(* around the day, month, year and leap-day boundaries.                    *)
(***************************************************************************)
\* day numbers since 1970-01-01: 1970-01-01, 1970-02-28, 1970-03-01, 1970-12-31,
\* 1971-01-01, 1972-02-28, 1972-02-29, 2000-02-28, 2000-02-29, 2023-11-14,
\* 2023-11-15, 2023-12-31
TransformDays == {0, 58, 59, 364, 365, 788, 789, 11015, 11016, 19675, 19676, 19722}

\* seconds of the UTC day: 00:00:00, 14:59:59, 15:00:00, 22:13:20, 23:59:59
TransformSeconds == {0, 53999, 54000, 80000, 86399}

TransformEpochs == { d * 86400 + sec : d \in TransformDays, sec \in TransformSeconds }

InitTransform ==
    /\ InitSink
    /\ InitLoop
    /\ pc = "transform"
    /\ environ = [v \in RequiredVars |-> "set"]
    /\ cities = <<"Seoul">>
    /\ requests = <<"Seoul">>
    /\ \E e \in TransformEpochs, t \in Temps :
         weather_data = << [dt |-> e, id |-> CityId("Seoul"), name |-> "Seoul", temp |-> t,
                            humidity |-> 60, wind_speed |-> 31] >>
    /\ clean_df = <<>>
    /\ error_vars = {}
    /\ outcome = "none"

NextTransform == main_transform

SpecTransform == InitTransform /\ [][NextTransform]_vars

(***************************************************************************)
(* SpecSched: the scheduling loop                                          *)
(*     schedule.every(run_minutes).minutes.do(main, config=config)         *)
(*     while True: schedule.run_pending(); time.sleep(5)                   *)
(* The clock counts the loop's sleeps; the requests of one invocation may  *)
(* take time as well.                                                      *)
(***************************************************************************)
\* what one invocation's requests to the weather API may take, in units of the
\* loop's sleep: one sleep, or more than a whole period
JobDurations == {1, Period + 1}

\* the job runs in another thread and run_pending returns at once
job_call_position_threaded == "sleep"

\* schedule's Job.run calls job_func(), here main(config=config), in the thread of
\* the loop: run_pending returns only after main has returned
job_call_position == "in_job"

\* next_run advances on a grid fixed when the job was scheduled
schedule_next_run_fixed(nr, t) == nr + Period

\* schedule's Job._schedule_next_run, called after job_func has returned:
\* next_run = datetime.now() + period
schedule_next_run(nr, t) == t + Period

\* run_pending: the job is not due
run_pending_not_due ==
    /\ loop = "run_pending"
    /\ now < next_run
    /\ loop' = "sleep"
    /\ UNCHANGED <<sinkVars, runVars, now, next_run, last_run, sinks, starts, active>>

\* run_pending: the job is due, Job.run calls main(config=config)
run_pending_job_due ==
    /\ loop = "run_pending"
    /\ now >= next_run
    /\ MainEntered
    /\ loop' = job_call_position
    /\ starts' = Append(starts, now)
    /\ active' = active + 1
    /\ UNCHANGED <<now, next_run, last_run, sinks>>

\* extract_weather's requests block for a while: time passes inside the invocation
job_takes_time ==
    /\ pc = "extract"
    /\ starts # <<>>
    /\ now = starts[Len(starts)]
    /\ \E d \in JobDurations :
         /\ now + d <= MaxTime
         /\ now' = now + d
    /\ UNCHANGED <<sinkVars, runVars, next_run, last_run, loop, sinks, starts, active>>

\* main has returned into Job.run: last_run and next_run are set, run_pending
\* returns and the loop goes to sleep
job_returns ==
    /\ loop = "in_job"
    /\ pc = "returned"
    /\ last_run' = now
    /\ next_run' = schedule_next_run(next_run, now)
    /\ active' = active - 1
    /\ loop' = "sleep"
    /\ pc' = "idle"
    /\ requests' = <<>>
    /\ weather_data' = <<>>
    /\ clean_df' = <<>>
    /\ error_vars' = {}
    /\ lpc' = "idle"
    /\ method' = "none"
    /\ batch' = <<>>
    /\ result' = "none"
    /\ stmts' = <<>>
    /\ pre' = table
    /\ UNCHANGED <<tableState, table, first, environ, cities, outcome, now, sinks, starts>>

\* an exception has left main: it passes through Job.run and run_pending and
\* leaves "while True", nothing in __main__ catches it
job_raises ==
    /\ loop = "in_job"
    /\ pc = "raised"
    /\ loop' = "terminated"
    /\ active' = active - 1
    /\ UNCHANGED <<sinkVars, runVars, now, next_run, last_run, sinks, starts>>

\* time.sleep(5)
sleep ==
    /\ loop = "sleep"
    /\ now < MaxTime
    /\ now' = now + 1
    /\ loop' = "run_pending"
    /\ UNCHANGED <<sinkVars, runVars, next_run, last_run, sinks, starts, active>>

\* the variables of the environment are all set, or DB_PASSWORD is missing
InitSched ==
    /\ InitSink
    /\ InitLoop
    /\ pc = "idle"
    /\ environ \in { [v \in RequiredVars |-> "set"],
                     [v \in RequiredVars |-> IF v = "DB_PASSWORD" THEN "unset" ELSE "set"] }
    /\ cities = <<"Busan", "Seoul">>
    /\ requests = <<>>
    /\ weather_data = <<>>
    /\ clean_df = <<>>
    /\ error_vars = {}
    /\ outcome = "none"

NextSched ==
    \/ run_pending_not_due
    \/ run_pending_job_due
    \/ main_logger_add
    \/ main_load_dotenv
    \/ main_config_check
    \/ main_clients
    \/ job_takes_time
    \/ main_extract_get_city
    \/ main_transform
    \/ main_load
    \/ upsert_create_table
    \/ upsert_delete
    \/ upsert_to_sql
    \/ main_load_over
    \/ job_returns
    \/ job_raises
    \/ sleep

SpecSched == InitSched /\ [][NextSched]_vars

(***************************************************************************)
(* Properties of the load strategies (specification Spec).                 *)
(***************************************************************************)
\* no two records of df have the same (dt, time, id)
DistinctKeys(df) ==
    \A i, j \in 1..Len(df) :
        i # j => <<df[i].dt, df[i].time, df[i].id>> # <<df[j].dt, df[j].time, df[j].id>>

\* the load call has ended and no statement of it failed to reach the server
CallOver(m) == method = m /\ lpc \in Ended /\ result # "OperationalError"

\* C1: upsert is idempotent: when upsert is called twice in a row with the same
\* batch (neither call losing the server), the second call leaves the table
\* exactly as the first call left it, and ends as the first ended.
C1_UpsertIdempotent ==
    (CallOver("upsert") /\ first \in {"ok", "IntegrityError"})
        => /\ table = pre
           /\ result = first
           /\ tableState = "keyed"

C1_Witness ==
    /\ CallOver("upsert")
    /\ first = "ok"
    /\ Len(batch) = 2
    /\ stmts = <<"create_all", "DELETE", "to_sql">>
    /\ table = pre
    /\ \E r \in BagToSet(table) : r \notin Range(batch)

\* C2: upsert is atomic per load call: when the call is over, either the delete
\* of the batch's keys and the insert of the batch both took effect, or the
\* table holds what it held before the call.
C2_UpsertAtomic ==
    (method = "upsert" /\ lpc \in Ended)
        => \/ table = pre
           \/ table = delete_rows(pre, key_values(batch)) (+) RowsOf(batch)

\* C3 as stated: after upsert the table holds, for each key of the batch, exactly
\* one row, the last row of the batch with that key, duplicates in the batch
\* included.
C3_LastRowOfBatchWins ==
    CallOver("upsert")
        => \A i \in 1..Len(batch) :
             LET same == { j \in 1..Len(batch) : key_of(batch[j]) = key_of(batch[i]) }
                 last == CHOOSE j \in same : \A k \in same : k <= j
             IN  /\ KeyCount(table, key_of(batch[i])) = 1
                 /\ CopiesIn(batch[last], table) = 1

\* C3 amended: the batch wins over the stored rows: after upsert of a batch whose
\* rows have pairwise distinct keys the call has returned and the table holds, for
\* each key of the batch, exactly one row, the batch's; a batch with two rows of
\* one key makes the call raise IntegrityError.
C3_BatchWinsOverStored ==
    CallOver("upsert")
        => IF DistinctKeys(batch)
           THEN /\ lpc = "returned"
                /\ \A i \in 1..Len(batch) :
                     /\ KeyCount(table, key_of(batch[i])) = 1
                     /\ CopiesIn(batch[i], table) = 1
           ELSE lpc = "raised" /\ result = "IntegrityError"

C3_Witness ==
    /\ CallOver("upsert")
    /\ lpc = "returned"
    /\ \E i \in 1..Len(batch) :
         /\ KeyCount(pre, key_of(batch[i])) = 1
         /\ ~BagIn(batch[i], pre)
         /\ CopiesIn(batch[i], table) = 1

\* C4: insert is strict append: an insert of a batch one of whose keys is already
\* stored raises (IntegrityError once the INSERT reached the server) and leaves
\* the table's content as it was, the batch's rows with fresh keys included.
C4_InsertStrictAppend ==
    (method = "insert" /\ lpc \in Ended
        /\ \E i \in 1..Len(batch) : KeyCount(pre, key_of(batch[i])) > 0)
        => /\ lpc = "raised"
           /\ table = pre
           /\ (result # "OperationalError" => result = "IntegrityError")

C4_Witness ==
    /\ method = "insert"
    /\ result = "IntegrityError"
    /\ batch # <<>>
    /\ KeyCount(pre, key_of(batch[1])) = 0
    /\ \E i \in 1..Len(batch) : KeyCount(pre, key_of(batch[i])) > 0
    /\ table = pre

\* C5 as stated: after overwrite(B) the table exists and holds exactly the rows of
\* B, for every batch B.
C5_OverwriteAnyBatch ==
    CallOver("overwrite") => tableState # "absent" /\ table = RowsOf(batch)

\* C5 amended: after overwrite(B) of a batch whose rows have pairwise distinct keys
\* the call has returned and the table exists and holds exactly the rows of B,
\* whatever was stored before; a batch with two rows of one key makes the call
\* raise IntegrityError.
C5_OverwriteFullReplace ==
    CallOver("overwrite")
        => IF DistinctKeys(batch)
           THEN lpc = "returned" /\ tableState = "keyed" /\ table = RowsOf(batch)
           ELSE lpc = "raised" /\ result = "IntegrityError"

C5_Witness ==
    /\ CallOver("overwrite")
    /\ lpc = "returned"
    /\ batch # <<>>
    /\ \E r \in BagToSet(pre) : ~BagIn(r, table)
    /\ table = RowsOf(batch)

\* C6 as stated: the table never holds two rows with the same (dt, time).
C6_KeyIsDateTime ==
    \A r1, r2 \in BagToSet(table) :
        /\ CopiesIn(r1, table) = 1
        /\ (r1 # r2 => <<r1.dt, r1.time>> # <<r2.dt, r2.time>>)

\* C6 amended: the primary key is (dt, time, id): the table never holds two rows
\* with the same (dt, time, id), and rows of one batch that differ in id alone are
\* all stored: upsert of a batch whose rows are pairwise distinct in
\* (dt, time, id) returns with every row of the batch stored.
C6_KeyIsDateTimeId ==
    /\ \A r1, r2 \in BagToSet(table) :
         /\ CopiesIn(r1, table) = 1
         /\ (r1 # r2 => <<r1.dt, r1.time, r1.id>> # <<r2.dt, r2.time, r2.id>>)
    /\ (CallOver("upsert") /\ DistinctKeys(batch))
         => lpc = "returned" /\ \A i \in 1..Len(batch) : CopiesIn(batch[i], table) = 1

C6_Witness ==
    /\ CallOver("upsert")
    /\ lpc = "returned"
    /\ \E i, j \in 1..Len(batch) :
         /\ <<batch[i].dt, batch[i].time>> = <<batch[j].dt, batch[j].time>>
         /\ batch[i].id # batch[j].id
         /\ BagIn(batch[i], table)
         /\ BagIn(batch[j], table)

(***************************************************************************)
(* Properties of one invocation of main (specification SpecRun).           *)
(***************************************************************************)
\* C7: main never raises out to the scheduler: whatever fails, main returns.
C7_MainNeverRaises == pc # "raised"

\* C8: whenever the configuration check fails, the message names every variable
\* that made it fail: the names in the message are the variables that are unset
\* or empty, and there is at least one.
C8_MessageNamesEveryCause ==
    outcome = "caught:config"
        => /\ error_vars # {}
           /\ error_vars = { v \in RequiredVars : environ[v] # "set" }

\* C9: the stages of a run are ordered and a failure stops the run: a request is
\* made only with every required value set; transform runs only on one response
\* per request made; statements reach the database only for the transformed
\* responses; a run stopped by the configuration check made no request, and a run
\* stopped by a failed request issued no statement and left the table as it was.
C9_StagesOrdered ==
    /\ requests # <<>> => \A v \in RequiredVars : environ[v] = "set"
    /\ (pc \in {"transform", "load", "loading"} \/ clean_df # <<>>)
         => weather_data # <<>> /\ Len(weather_data) = Len(requests)
    /\ (lpc # "idle" \/ stmts # <<>>)
         => /\ clean_df = transform_weather(weather_data)
            /\ Len(clean_df) = Len(requests)
            /\ batch = clean_df
    /\ outcome = "caught:config" => requests = <<>> /\ stmts = <<>> /\ table = pre
    /\ outcome = "caught:extract"
         => /\ stmts = <<>>
            /\ lpc = "idle"
            /\ clean_df = <<>>
            /\ table = pre

C9_Witness ==
    /\ outcome = "caught:extract"
    /\ Len(requests) = 2
    /\ Len(weather_data) = 1
    /\ table # EmptyBag
    /\ table = pre
    /\ stmts = <<>>

\* C10: extract_weather requests each city of the configured list once, in the
\* list's order, and transform_weather yields one row per configured city, in
\* order, with dt, time and measured_at set.
C10_OneRowPerConfiguredCity ==
    /\ pc \in {"transform", "load", "loading"} => requests = cities
    /\ pc \in {"load", "loading"}
         => /\ Len(clean_df) = Len(cities)
            /\ \A i \in 1..Len(clean_df) :
                 /\ clean_df[i].city = cities[i]
                 /\ Len(clean_df[i].dt) = 8
                 /\ Len(clean_df[i].time) = 6
                 /\ clean_df[i].measured_at > 0

(***************************************************************************)
(* Further properties of the load strategies (specification Spec).         *)
(***************************************************************************)
\* C13: an unrecognized method fails before any I/O: load_weather called with a
\* method other than insert, upsert and overwrite has raised at once, no
\* operation has reached the database and the table is as it was.
C13_UnknownMethodNoIO ==
    (lpc # "idle" /\ method \notin {"insert", "upsert", "overwrite"})
        => /\ lpc = "raised"
           /\ result = "Exception"
           /\ stmts = <<>>
           /\ table = pre

C13_Witness ==
    /\ method = "merge"
    /\ lpc = "raised"
    /\ batch # <<>>
    /\ table # EmptyBag
    /\ stmts = <<>>

\* C17: upsert leaves unrelated rows alone: at every point of an upsert call, and
\* however it ends, the rows whose (dt, time, id) does not occur in the batch are
\* exactly those stored before the call; with an empty batch no DELETE is issued
\* and the table is as it was.
C17_UpsertFrame ==
    (method = "upsert" /\ lpc # "idle")
        => LET batch_keys == { <<batch[i].dt, batch[i].time, batch[i].id>> : i \in 1..Len(batch) }
               Unrelated(tbl) == { r \in BagToSet(tbl) : <<r.dt, r.time, r.id>> \notin batch_keys }
           IN  /\ Unrelated(table) = Unrelated(pre)
               /\ \A r \in Unrelated(pre) : CopiesIn(r, table) = CopiesIn(r, pre)
               /\ batch = <<>> => table = pre /\ \A i \in 1..Len(stmts) : stmts[i] # "DELETE"

C17_Witness ==
    /\ method = "upsert"
    /\ lpc \in Ended
    /\ "DELETE" \in Range(stmts)
    /\ table # pre
    /\ \E r \in BagToSet(pre) :
         /\ key_of(r) \notin Range(key_values(batch))
         /\ BagIn(r, table)
    /\ \E r \in BagToSet(pre) : key_of(r) \in Range(key_values(batch))

\* C18: overwrite destroys all prior history even when it fails late: once the
\* DROP of an overwrite call has been executed, the table holds nothing, or (the
\* call having returned) exactly the batch; a call that raises after the DROP
\* leaves the table empty, never the prior content.
C18_OverwriteDestroysHistory ==
    (method = "overwrite" /\ "DROP" \in Range(stmts))
        => /\ table = EmptyBag \/ (lpc = "returned" /\ table = RowsOf(batch))
           /\ lpc = "raised" => table = EmptyBag
           /\ \A r \in BagToSet(pre) : r \notin Range(batch) => ~BagIn(r, table)

C18_Witness ==
    /\ method = "overwrite"
    /\ lpc = "raised"
    /\ result = "IntegrityError"
    /\ pre # EmptyBag
    /\ table = EmptyBag
    /\ tableState = "keyed"

(***************************************************************************)
(* Properties of transform_weather (specification SpecTransform).          *)
(***************************************************************************)
IsLeapYear(y) == (y % 4 = 0 /\ y % 100 # 0) \/ y % 400 = 0

DaysInYear(y) == IF IsLeapYear(y) THEN 366 ELSE 365

DaysInMonth(y, m) ==
    IF m = 2 THEN (IF IsLeapYear(y) THEN 29 ELSE 28)
    ELSE IF m \in {4, 6, 9, 11} THEN 30 ELSE 31

\* the calendar date of a day number since 1970-01-01, counted year by year and
\* month by month, as the string YYYYMMDD
RECURSIVE CalendarFrom(_, _, _)
CalendarFrom(y, m, n) ==
    IF m = 1 /\ n >= DaysInYear(y) THEN CalendarFrom(y + 1, 1, n - DaysInYear(y))
    ELSE IF n >= DaysInMonth(y, m) THEN CalendarFrom(y, m + 1, n - DaysInMonth(y, m))
    ELSE Digit(y \div 1000) \o Digit((y \div 100) % 10) \o Digit((y \div 10) % 10)
            \o Digit(y % 10) \o Digit(m \div 10) \o Digit(m % 10)
            \o Digit((n + 1) \div 10) \o Digit((n + 1) % 10)

CalendarYmd(day) == CalendarFrom(1970, 1, day)

\* the time of day of a second count, as the string HHMMSS
ClockHMS(sec) ==
    LET h == sec \div 3600
        mi == (sec - h * 3600) \div 60
        se == sec - h * 3600 - mi * 60
    IN  Digit(h \div 10) \o Digit(h % 10) \o Digit(mi \div 10) \o Digit(mi % 10)
            \o Digit(se \div 10) \o Digit(se % 10)

\* C14: timestamp derivation uses a fixed +9 hour offset: measured_at is dt plus
\* 32400 seconds, dt (date_key) its calendar date YYYYMMDD and time (time_key) its
\* time of day HHMMSS; a dt whose UTC time of day is 15:00:00 or later gets the
\* next calendar day's date, an earlier one the date of its UTC day; for
\* dt = 1700000000 the date is "20231115".
C14_FixedOffsetPlus9h ==
    pc = "load"
        => /\ Len(clean_df) = Len(weather_data)
           /\ \A i \in 1..Len(clean_df) :
                LET o == weather_data[i]
                    r == clean_df[i]
                    utc_day == o.dt \div 86400
                    utc_sec == o.dt - utc_day * 86400
                IN  /\ r.measured_at = o.dt + 32400
                    /\ r.dt = CalendarYmd(r.measured_at \div 86400)
                    /\ r.time = ClockHMS(r.measured_at % 86400)
                    /\ r.dt = IF utc_sec >= 54000 THEN CalendarYmd(utc_day + 1)
                              ELSE CalendarYmd(utc_day)
                    /\ r.time = IF utc_sec >= 54000 THEN ClockHMS(utc_sec - 54000)
                                ELSE ClockHMS(utc_sec + 32400)
                    /\ o.dt = 1700000000 => r.dt = "20231115"

C14_Witness ==
    /\ pc = "load"
    /\ weather_data[1].dt = 1700000000
    /\ clean_df[1].dt = "20231115"
    /\ clean_df[1].time = "071320"
    /\ clean_df[1].measured_at = 1700032400


(***************************************************************************)
(* Properties of the scheduling loop (specification SpecSched).            *)
(***************************************************************************)
\* an invocation of main is between its entry and its return or raise
InProgress == pc \notin {"idle", "returned", "raised"}

\* C11: runs never overlap: at most one invocation of main is in progress, and
\* run_pending is not evaluated again before the current invocation has returned
\* (whenever the loop is at run_pending or asleep no invocation is open).
C11_RunsNeverOverlap ==
    /\ active <= 1
    /\ loop \in {"run_pending", "sleep"} => active = 0 /\ ~InProgress
    /\ InProgress => loop = "in_job" /\ active = 1

\* the second invocation is loading while the loop waits inside run_pending
C11_Witness ==
    /\ Len(starts) = 2
    /\ pc = "loading"
    /\ loop = "in_job"
    /\ active = 1

\* C12: the scheduler survives every run outcome: whatever way an invocation of
\* main ends, the loop goes on to its next sleep and due-check; no invocation
\* ends "while True".
C12_LoopSurvivesEveryRun == loop # "terminated"

\* C15: one log file per process start: after any number of scheduled runs exactly
\* one log file sink is registered, so each run's messages go to exactly one file
\* (before the first run none is registered yet).
C15_OneLogFilePerProcess ==
    /\ sinks <= 1
    /\ pc = "returned" => sinks = 1

\* C16 as stated: invocations start on a fixed period counted from process start
\* (every start is a whole number of periods after process start), and between
\* the start of one invocation and the start of the next at least N minutes elapse.
C16_FixedPeriodFromProcessStart ==
    /\ \A k \in 1..Len(starts) : starts[k] % Period = 0
    /\ \A k \in 1..(Len(starts) - 1) : starts[k + 1] >= starts[k] + Period

\* C16, amended: the period is counted from the return of the previous invocation,
\* not from process start. The first invocation starts N minutes after the job was
\* scheduled; every later one starts at the first due-check N minutes after the
\* previous invocation returned, so the starts drift by the duration of the runs.
\* There is no catch-up: between two starts at least N minutes elapse, also after
\* a run that lasted longer than its period.
C16_PeriodFromLastReturn ==
    /\ Len(starts) >= 1 => starts[1] = Period
    /\ \A k \in 1..(Len(starts) - 1) : starts[k + 1] >= starts[k] + Period
    /\ last_run # -1 /\ loop # "in_job" => next_run = last_run + Period
    /\ last_run # -1 /\ loop = "in_job" => starts[Len(starts)] = last_run + Period

\* the first invocation lasted longer than a period, and the second one started
\* one period after it returned
C16_Witness ==
    /\ Len(starts) = 2
    /\ last_run = starts[1] + Period + 1
    /\ starts[2] = last_run + Period
    /\ loop = "in_job"

=============================================================================
